---------------------------- MODULE Spec2Model ----------------------------
(***************************************************************************)
(* A model of paddlenlp/transformers/attention_utils.py: the BigBird mask  *)
(* builder (class Mask) with numpy's global random generator, and the      *)
(* block-sparse forward of BigBirdSparseAttention at the level of which    *)
(* key position each query position attends to.                           *)
(*                                                                         *)
(* Positions and block indices are 0-based as in the source; TLA+          *)
(* sequences are 1-based, so element i of a Python list is seq[i + 1].     *)
(***************************************************************************)
EXTENDS Integers, Sequences, FiniteSets, TLC

(***************************************************************************)
(* Bounds of the model.                                                    *)
(***************************************************************************)
\* query_length and key_length of a Mask range over 1..MaxLen
MaxLen == 4
\* the seed argument ranges over 0..MaxSeed
MaxSeed == 1
\* number of states of the abstract random generator
RngStates == 6
\* at most MaxDraws draws by other users of np.random in a run
MaxDraws == 1
\* at most MaxMasks constructions of Mask in a run
MaxMasks == 2
MaxLayers == 2
MaxIdxCalls == 2
MaxEmbedDim == 4
MaxCalls == 2

\* Parameter values the Mask constructor is called with.
HeadCounts == {1, 2}
BlockSizes == {1, 2}
WindowSizes == {1, 3}
GlobalCounts == {0, 1, 2}
RandCounts == {0, 1, 2}
Seeds == 0..MaxSeed
Lengths == 1..MaxLen

\* sequence_length of a call of forward ranges over 1..MaxSeqLen
MaxSeqLen == 10

\* Attribute values of the BigBirdSparseAttention layer.
AttnBlockSizes == {1, 2}
AttnWindowSizes == {1, 2, 3, 4, 5}
AttnGlobalCounts == {0, 1, 2, 3}

\* the arguments of MultiHeadAttention and the lengths of its inputs
EmbedDims == 1..MaxEmbedDim
MhaHeadCounts == {1, 2, 3}
AttentionTypes == {"bigbird", "default_attention"}
NewLengths == {1, 2}

VARIABLES
    args,      \* the constructor arguments of Mask (attribute per argument)
    rng,       \* state of numpy's global generator (np.random)
    masks,     \* the Mask objects constructed so far, in order
    draws,     \* draws made from np.random by other code after the first Mask
    attn,      \* the attributes of the attention layer and the inputs of a call
    pc,        \* the statement reached by the function that runs
    global_front_out,   \* forward's local of that name
    global_back_out,    \* forward's local of that name
    band_mask,          \* forward's local of that name
    band_keys_matrix,   \* forward's local of that name (band_value_matrix alike)
    second_out,         \* forward's local of that name
    out,                \* the result of forward
    attn_mask_list,     \* result of create_bigbird_simulated_attention_mask_list
    rand_mask_idx_list, \* second result of that function
    mha,       \* a MultiHeadAttention object: its attributes and sublayers
    cache,     \* the cache object the caller of MultiHeadAttention holds
    call,      \* the last call of MultiHeadAttention.forward
    float_mask,   \* result and object of the last call of Mask.get_float_mask
    idx_calls     \* the calls of create_bigbird_rand_mask_idx(_list), in order

vars == <<args, rng, masks, draws, attn, pc, global_front_out, global_back_out,
          band_mask, band_keys_matrix, second_out, out, attn_mask_list,
          rand_mask_idx_list, mha, cache, call, float_mask, idx_calls>>

Max(a, b) == IF a >= b THEN a ELSE b
Min(a, b) == IF a <= b THEN a ELSE b

(***************************************************************************)
(* numpy's global generator.  Its state is the position in the generator's *)
(* cycle; seeding jumps to a position fixed by the seed, every draw moves  *)
(* one position on.                                                        *)
(***************************************************************************)
NpRandomSeed(seed) == (3 * seed + 1) % RngStates

\* the state after k draws
RngAdvance(state, k) == (state + k) % RngStates

RngNext(state) == RngAdvance(state, 1)

\* a bounded draw in 0..hi, as the shuffle makes for each position
RngInterval(state, hi) == state % (hi + 1)

Swap(seq, i, j) == [seq EXCEPT ![i] = seq[j], ![j] = seq[i]]

\* np.random.shuffle: for i = n-1 down to 1, swap x[i] with x[j], j drawn in 0..i
RECURSIVE Shuffle(_, _, _)
Shuffle(x, i, state) ==
    IF i < 1 THEN [perm |-> x, rng |-> state]
    ELSE Shuffle(Swap(x, i + 1, RngInterval(state, i) + 1), i - 1, RngNext(state))

\* np.random.permutation(np.arange(0, n)): a shuffled copy and the new state
NpRandomPermutation(n, state) == Shuffle([b \in 1..n |-> b - 1], n - 1, state)

(***************************************************************************)
(* class Mask                                                              *)
(***************************************************************************)
\* number of blocks of a sequence of the given length (a last partial block counts)
NumBlocks(length, block_size) ==
    length \div block_size + (IF length % block_size # 0 THEN 1 ELSE 0)

NumQueryBlocks(a) == NumBlocks(a.query_length, a.block_size)
NumKeyBlocks(a) == NumBlocks(a.key_length, a.block_size)
NumWindowBlocks(a) == a.window_size \div 2

\* index set of the [num_heads, query_length, key_length] arrays
MaskIndex(a) ==
    (0..(a.num_heads - 1)) \X (0..(a.query_length - 1)) \X (0..(a.key_length - 1))

\* np.zeros_like(...) of shape [num_heads, query_length, key_length]
ZerosMask(a) == [p \in MaskIndex(a) |-> 0]

\* array[heads, qlo:qhi, klo:khi] = 1  (a slice end past the axis is clipped)
SliceAssignOne(array, heads, qlo, qhi, klo, khi) ==
    [p \in DOMAIN array |->
        IF p[1] \in heads /\ qlo <= p[2] /\ p[2] < qhi /\ klo <= p[3] /\ p[3] < khi
        THEN 1 ELSE array[p]]

AllHeads(a) == 0..(a.num_heads - 1)

\* Mask._get_window_block_idx
GetWindowBlockIdx(a, query_block_idx) ==
    [left |-> Max(0, query_block_idx - NumWindowBlocks(a)),
     right |-> Min(query_block_idx + NumWindowBlocks(a), NumKeyBlocks(a) - 1)]

\* a variant of _create_global_mask that sets the global rows and leaves the
\* global columns alone
CreateGlobalMaskRowsOnly(a, mask) ==
    SliceAssignOne(mask, AllHeads(a), 0, a.num_global_blocks * a.block_size,
                   0, a.key_length)

\* Mask._create_global_mask
CreateGlobalMask(a, mask) ==
    LET global_block_length == a.num_global_blocks * a.block_size
        rows == SliceAssignOne(mask, AllHeads(a), 0, global_block_length,
                               0, a.key_length)
    IN  SliceAssignOne(rows, AllHeads(a), 0, a.query_length, 0, global_block_length)

\* a variant of the loop body of _create_window_mask whose right end leaves
\* out the last block of the window
WindowMaskStepNarrow(a, mask, query_block_idx) ==
    LET w == GetWindowBlockIdx(a, query_block_idx)
    IN  SliceAssignOne(mask, AllHeads(a), query_block_idx * a.block_size,
                       Min((query_block_idx + 1) * a.block_size, a.query_length),
                       w.left * a.block_size, w.right * a.block_size)

\* one iteration of the loop of Mask._create_window_mask
WindowMaskStep(a, mask, query_block_idx) ==
    LET w == GetWindowBlockIdx(a, query_block_idx)
        left_idx == w.left * a.block_size
        right_idx == (w.right + 1) * a.block_size
        query_left_idx == query_block_idx * a.block_size
        query_right_idx == Min((query_block_idx + 1) * a.block_size, a.query_length)
    IN  SliceAssignOne(mask, AllHeads(a), query_left_idx, query_right_idx,
                       left_idx, right_idx)

\* Mask._create_window_mask: the loop from query block q on
RECURSIVE CreateWindowMaskFrom(_, _, _)
CreateWindowMaskFrom(a, mask, q) ==
    IF q >= NumQueryBlocks(a) THEN mask
    ELSE CreateWindowMaskFrom(a, WindowMaskStep(a, mask, q), q + 1)

CreateWindowMask(a, mask) == CreateWindowMaskFrom(a, mask, 0)

\* a variant of the illegal set without the substitute blocks
IllegalBlocksIdxNoFill(a, query_block_idx) ==
    LET w == GetWindowBlockIdx(a, query_block_idx)
    IN  (w.left..w.right) \cup (0..(a.num_global_blocks - 1))

\* a variant of the illegal set that holds the window only
IllegalBlocksIdxWindowOnly(a, query_block_idx) ==
    LET w == GetWindowBlockIdx(a, query_block_idx)
    IN  w.left..w.right

\* the set illegal_blocks_idx of Mask._create_random_mask for one query block
IllegalBlocksIdx(a, query_block_idx) ==
    LET w == GetWindowBlockIdx(a, query_block_idx)
        G == a.num_global_blocks
        left_key_block_idx == query_block_idx - NumWindowBlocks(a)
        right_key_block_idx == query_block_idx + NumWindowBlocks(a)
        front_fill == IF G > left_key_block_idx
                      THEN (NumKeyBlocks(a) - (G - left_key_block_idx))
                               ..(NumKeyBlocks(a) - 1)
                      ELSE {}
        back_fill == IF right_key_block_idx >= NumKeyBlocks(a)
                     THEN G..(G + (right_key_block_idx - NumKeyBlocks(a) + 1) - 1)
                     ELSE {}
    IN  (w.left..w.right) \cup (0..(G - 1)) \cup front_fill \cup back_fill

\* the loop "for j in perm_block" from element n on: j is appended when it is
\* not illegal, and the loop is left when the list has num_rand_blocks entries
RECURSIVE LegalBlocksIdxFrom(_, _, _, _, _)
LegalBlocksIdxFrom(perm_block, illegal, num_rand_blocks, n, legal) ==
    IF n > Len(perm_block) THEN legal
    ELSE LET j == perm_block[n]
             legal2 == IF j \notin illegal THEN Append(legal, j) ELSE legal
         IN  IF Len(legal2) = num_rand_blocks THEN legal2
             ELSE LegalBlocksIdxFrom(perm_block, illegal, num_rand_blocks,
                                     n + 1, legal2)

LegalBlocksIdx(perm_block, illegal, num_rand_blocks) ==
    LegalBlocksIdxFrom(perm_block, illegal, num_rand_blocks, 1, <<>>)

\* a variant that marks the first chosen block only
MarkRandBlocksFirstOnly(a, rand_mask, head, query_block_idx, legal, n) ==
    IF n > Len(legal) \/ n > 1 THEN rand_mask
    ELSE SliceAssignOne(rand_mask, {head},
                        query_block_idx * a.block_size,
                        Min((query_block_idx + 1) * a.block_size, a.query_length),
                        legal[n] * a.block_size,
                        Min((legal[n] + 1) * a.block_size, a.key_length))

\* rand_mask[head, query rows of the block, key columns of each chosen block] = 1
RECURSIVE MarkRandBlocks(_, _, _, _, _, _)
MarkRandBlocks(a, rand_mask, head, query_block_idx, legal, n) ==
    IF n > Len(legal) THEN rand_mask
    ELSE LET key_left_idx == legal[n] * a.block_size
             key_right_idx == Min((legal[n] + 1) * a.block_size, a.key_length)
             query_left_idx == query_block_idx * a.block_size
             query_right_idx == Min((query_block_idx + 1) * a.block_size,
                                    a.query_length)
         IN  MarkRandBlocks(a,
                 SliceAssignOne(rand_mask, {head}, query_left_idx, query_right_idx,
                                key_left_idx, key_right_idx),
                 head, query_block_idx, legal, n + 1)

\* draws one np.random.permutation of n elements takes from the generator
DrawsPerPermutation(n) == Max(0, n - 1)

\* The loops of Mask._create_random_mask run over the query blocks and, inside,
\* over the heads; each iteration draws one permutation.  The iteration for
\* (query block q, head i) is number q * num_heads + i, and its permutation is
\* drawn from the generator as the iterations before it left it.
PermBlock(a, state, q, i) ==
    NpRandomPermutation(NumKeyBlocks(a),
        RngAdvance(state,
            (q * a.num_heads + i) * DrawsPerPermutation(NumKeyBlocks(a)))).perm

\* legal_blocks_idx of the iteration for (query block q, head i)
LegalBlocksOf(a, state, q, i) ==
    LegalBlocksIdx(PermBlock(a, state, q, i), IllegalBlocksIdx(a, q),
                   a.num_rand_blocks)

\* rand_mask_idx[i] after the loops: for each head the list, over the query
\* blocks, of the lists legal_blocks_idx
PickedBlocks(a, state) ==
    [i \in AllHeads(a) |->
        [n \in 1..NumQueryBlocks(a) |-> LegalBlocksOf(a, state, n - 1, i)]]

\* rand_mask after the loops: iteration (q, i) writes head i and the query rows
\* of block q, which no other iteration writes
RandMaskOf(a, state) ==
    [p \in MaskIndex(a) |->
        MarkRandBlocks(a, [x \in {p} |-> 0], p[1], p[2] \div a.block_size,
                       LegalBlocksOf(a, state, p[2] \div a.block_size, p[1]), 1)[p]]

\* the generator after the loops
RngAfterLoops(a, state) ==
    RngAdvance(state, NumQueryBlocks(a) * a.num_heads
                          * DrawsPerPermutation(NumKeyBlocks(a)))

\* np.stack(self.rand_mask_idx, axis=0) and the reads of shape[0..2] need a
\* rectangular [H, L, R] array: every list of every head of the same length
Rectangular(a, state) ==
    \A i \in AllHeads(a) : \A q \in 0..(NumQueryBlocks(a) - 1) :
        Len(LegalBlocksOf(a, state, q, i)) = Len(LegalBlocksOf(a, state, 0, 0))

\* the innermost loop "for k in range(R)": the entries [i, rand_mask_idx[i][j][k]]
SlotEntries(i, row) == [k \in 1..Len(row) |-> <<i, row[k]>>]

\* the loop "for j in range(L)" from j on, over rand_mask_idx[:, num_global_blocks:]
RECURSIVE RowEntriesFrom(_, _, _, _)
RowEntriesFrom(a, state, i, j) ==
    IF j >= Max(0, NumQueryBlocks(a) - a.num_global_blocks) THEN <<>>
    ELSE SlotEntries(i, LegalBlocksOf(a, state, a.num_global_blocks + j, i))
             \o RowEntriesFrom(a, state, i, j + 1)

\* the loop "for i in range(H)" from i on
RECURSIVE HeadEntriesFrom(_, _, _)
HeadEntriesFrom(a, state, i) ==
    IF i >= a.num_heads THEN <<>>
    ELSE RowEntriesFrom(a, state, i, 0) \o HeadEntriesFrom(a, state, i + 1)

\* a variant of the flattening that starts at head 1 and leaves out head 0
FlattenIdxFromHeadOne(a, state) == HeadEntriesFrom(a, state, 1)

\* the flat list built from rand_mask_idx[:, num_global_blocks:]
FlattenIdx(a, state) == HeadEntriesFrom(a, state, 0)

\* a variant of np.maximum that returns its first argument
MaximumFirst(x, y) == x

\* np.maximum(x, y)
Maximum(x, y) == [p \in DOMAIN x |-> Max(x[p], y[p])]

\* Mask._create_random_mask, given self.mask after the window mask and the
\* generator state: the object, and the generator state left behind.  picked
\* keeps the per-head lists as they are before np.stack.
CreateRandomMask(a, mask, state) ==
    IF Rectangular(a, state)
    THEN [obj |-> [status |-> "ok",
                   mask |-> Maximum(RandMaskOf(a, state), mask),
                   rand_mask |-> RandMaskOf(a, state),
                   rand_mask_idx |-> FlattenIdx(a, state),
                   picked |-> PickedBlocks(a, state)],
          rng |-> RngAfterLoops(a, state)]
    ELSE [obj |-> [status |-> "error",
                   mask |-> mask,
                   rand_mask |-> RandMaskOf(a, state),
                   rand_mask_idx |-> <<>>,
                   picked |-> PickedBlocks(a, state)],
          rng |-> RngAfterLoops(a, state)]

\* "if seed: np.random.seed(seed)"
SeedGenerator(a, state) == IF a.seed # 0 THEN NpRandomSeed(a.seed) ELSE state

\* Mask.__init__
MaskInit(a, state) ==
    CreateRandomMask(a,
        CreateWindowMask(a, CreateGlobalMask(a, ZerosMask(a))),
        SeedGenerator(a, state))

\* Mask.get_float_mask: 0 where the mask is 1, -inf elsewhere
GetFloatMask(mask) ==
    [p \in DOMAIN mask |-> IF mask[p] = 1 THEN "0.0" ELSE "-inf"]

\* a variant of a call of get_float_mask whose second assignment is made to
\* the stored mask
GetFloatMaskInPlace(obj) ==
    [result |-> GetFloatMask(obj.mask),
     obj |-> [obj EXCEPT !.mask = [p \in DOMAIN obj.mask |-> 0]]]

\* a call of get_float_mask on a Mask object: np.array(self.mask, ...) copies
\* the mask, the two assignments are made to the copy, and the object is left
\* as it is
GetFloatMaskCall(obj) == [result |-> GetFloatMask(obj.mask), obj |-> obj]

\* the state of np.random when iteration i (from 1) of the loop of
\* create_bigbird_simulated_attention_mask_list calls Mask(...), the function
\* having been entered in the given state
RECURSIVE LayerState(_, _, _)
LayerState(a, state, i) ==
    IF i = 1 THEN state
    ELSE RngAfterLoops(a, SeedGenerator(a, LayerState(a, state, i - 1)))

\* the Mask objects of the iterations, and the state np.random is left in
MaskLayers(num_layers, a, state) ==
    [obj |-> [i \in 1..num_layers |-> MaskInit(a, LayerState(a, state, i)).obj],
     rng |-> LayerState(a, state, num_layers + 1)]

\* create_bigbird_simulated_attention_mask_list: the two lists when every
\* iteration completes; when Mask raises in an iteration the function raises
\* and np.random is left as that iteration left it
CreateMaskList(num_layers, a, state) ==
    LET layers == MaskLayers(num_layers, a, state)
    IN  IF \A i \in 1..num_layers : layers.obj[i].status = "ok"
        THEN [ok |-> TRUE,
              attn_mask_list |->
                  [i \in 1..num_layers |-> GetFloatMask(layers.obj[i].mask)],
              rand_mask_idx_list |->
                  [i \in 1..num_layers |-> layers.obj[i].rand_mask_idx],
              rng |-> layers.rng]
        ELSE LET raising == {i \in 1..num_layers : layers.obj[i].status # "ok"}
                 first == CHOOSE i \in raising : \A j \in raising : i <= j
             IN  [ok |-> FALSE, attn_mask_list |-> <<>>,
                  rand_mask_idx_list |-> <<>>,
                  rng |-> LayerState(a, state, first + 1)]

\* create_bigbird_rand_mask_idx counts whole blocks only (key_length //
\* block_size, query_length // block_size, lines 196-197) and then runs the
\* loops of Mask._create_random_mask word for word (lines 201-236): it works
\* as these loops do on the lengths cut down to whole blocks.  The seed and
\* num_layers arguments are not read.
WholeBlockArgs(a) ==
    [a EXCEPT !.query_length = (a.query_length \div a.block_size) * a.block_size,
              !.key_length = (a.key_length \div a.block_size) * a.block_size]

\* lines 238-239: rand_mask_idx[:, num_global_blocks:] - num_global_blocks // 2,
\* in the row-major order of reshape([-1, 1]), each entry next to its head
\* index (lines 244-249)
ShiftedIdx(a, state) ==
    \* the entries <<head, key block>> of the rows kept, head by head
    LET flat == FlattenIdx(a, state)
    IN  [n \in 1..Len(flat) |->
            <<flat[n][1], flat[n][2] - a.num_global_blocks \div 2>>]

\* create_bigbird_rand_mask_idx entered with np.random in the given state:
\* np.stack and the reads of shape[0..2] need at least one query block and
\* lists of one length, np.pad needs L * R - 1 >= 0
CreateRandMaskIdx(a, state) ==
    LET t == WholeBlockArgs(a)
        L == Max(0, NumQueryBlocks(t) - t.num_global_blocks)
    IN  [ok |-> /\ NumQueryBlocks(t) >= 1
                /\ Rectangular(t, state)
                /\ L * Len(LegalBlocksOf(t, state, 0, 0)) - 1 >= 0,
         value |-> ShiftedIdx(t, state),
         rng |-> RngAfterLoops(t, state)]

\* the state of np.random when the list comprehension of
\* create_bigbird_rand_mask_idx_list makes its i-th call (from 1)
RECURSIVE IdxLayerState(_, _, _)
IdxLayerState(a, state, i) ==
    IF i = 1 THEN state
    ELSE RngAfterLoops(WholeBlockArgs(a), IdxLayerState(a, state, i - 1))

\* create_bigbird_rand_mask_idx_list: one call of create_bigbird_rand_mask_idx
\* for each layer, np.stack of the results (which must be of one shape); when
\* a call raises, the function raises and np.random is left as that call
\* left it
CreateRandMaskIdxList(num_layers, a, state) ==
    LET layers == [i \in 1..num_layers |->
                      CreateRandMaskIdx(a, IdxLayerState(a, state, i))]
        raising == {i \in 1..num_layers : ~ layers[i].ok}
    IN  IF raising = {}
        THEN [ok |-> \A i \in 1..num_layers :
                        Len(layers[i].value) = Len(layers[1].value),
              value |-> [i \in 1..num_layers |-> layers[i].value],
              rng |-> IdxLayerState(a, state, num_layers + 1)]
        ELSE [ok |-> FALSE, value |-> <<>>,
              rng |-> IdxLayerState(a, state,
                          (CHOOSE i \in raising : \A j \in raising : i <= j) + 1)]

(***************************************************************************)
(* class BigBirdSparseAttention.  One batch element and one head are       *)
(* modelled: forward treats every batch element and every head alike (the  *)
(* random-block path is commented out).  A row of the query, key or value  *)
(* matrix is represented by its sequence position, an attention result by  *)
(* the query position and the list of (key position, mask value) columns   *)
(* that enter its softmax.  c holds the layer's attributes and the inputs  *)
(* of one call: seq_len, block_size, window_size, num_global_blocks,       *)
(* query_mask, key_mask, and zero_size, which tells whether the tensor     *)
(* library build in use supports tensors with an axis of length 0.         *)
(***************************************************************************)
\* a Python index into an axis of length n: negative counts from the end,
\* and slice bounds are clipped to the axis
PyIndex(i, n) == IF i < 0 THEN Max(n + i, 0) ELSE Min(i, n)

\* x[start:stop]
PySlice(x, start, stop) ==
    LET lo == PyIndex(start, Len(x))
        hi == PyIndex(stop, Len(x))
    IN  IF lo >= hi THEN <<>> ELSE SubSeq(x, lo + 1, hi)

\* a slice of length 0 is a tensor only on builds with zero-size tensors;
\* the other builds reject it
Allowed(c, x) == Len(x) > 0 \/ c.zero_size

\* range(a, b) as a sequence
Range(a, b) == [n \in 1..Max(0, b - a) |-> a + n - 1]

\* paddle.reshape(x, [L, bs]) of a sequence of L * bs entries
Blocked(x, L, bs) == [l \in 1..L |-> SubSeq(x, (l - 1) * bs + 1, l * bs)]

\* the blocks of a [n, bs] array laid out one after another
RECURSIVE Flatten(_)
Flatten(blocks) ==
    IF blocks = <<>> THEN <<>> ELSE Head(blocks) \o Flatten(Tail(blocks))

\* x * 0
TimesZero(blocks) == [n \in 1..Len(blocks) |-> [k \in 1..Len(blocks[n]) |-> 0]]

\* BigBirdSparseAttention.__init__
NumGlobalBlocksBack(c) == c.num_global_blocks \div 2
NumGlobalBlocksFront(c) ==
    IF c.num_global_blocks % 2 = 0 THEN c.num_global_blocks \div 2
    ELSE c.num_global_blocks \div 2 + 1

\* L = T // bs
BlockedLength(c) == c.seq_len \div c.block_size

\* band_length = L - G - W // 2 * 2
BandLength(c) ==
    BlockedLength(c) - c.num_global_blocks - (c.window_size \div 2) * 2

\* BigBirdSparseAttention._get_global_out: the rows of the query matrix it
\* takes, each attending to all T keys with the penalty (1 - key_mask) * -1e6
GetGlobalOut(c, is_front) ==
    LET query_matrix == [t \in 1..c.seq_len |-> t - 1]
        global_query_matrix ==
            IF is_front
            THEN PySlice(query_matrix, 0, NumGlobalBlocksFront(c) * c.block_size)
            ELSE PySlice(query_matrix, 0 - NumGlobalBlocksBack(c) * c.block_size,
                         c.seq_len)
    IN  [ok |-> Allowed(c, global_query_matrix),
         val |-> [n \in 1..Len(global_query_matrix) |->
                    [query |-> global_query_matrix[n],
                     cols |-> [t \in 1..c.seq_len |->
                                 [key |-> t - 1, mask |-> c.key_mask[t]]]]]]

\* a variant of the first loop of _get_band_mask that does not zero the filler
MaskRollFrontUnzeroed(c, bkm, q) ==
    LET right_block_id == q + c.window_size \div 2
    IN  [kept |-> PySlice(bkm, NumGlobalBlocksFront(c), right_block_id + 1),
         zero |-> PySlice(bkm,
                     0 - (c.window_size - (right_block_id + 1 - c.num_global_blocks)),
                     0 - NumGlobalBlocksBack(c))]

\* _get_band_mask, first loop: the key mask row of edge query block q at the
\* front, the window blocks kept and the zeroed filler
MaskRollFront(c, bkm, q) ==
    LET right_block_id == q + c.window_size \div 2
    IN  [kept |-> PySlice(bkm, NumGlobalBlocksFront(c), right_block_id + 1),
         zero |-> TimesZero(PySlice(bkm,
                     0 - (c.window_size - (right_block_id + 1 - c.num_global_blocks)),
                     0 - NumGlobalBlocksBack(c)))]

\* _get_band_mask, second loop: blocked_key_mask[:, left:left + band_length]
MaskBandPiece(c, bkm, q) ==
    LET left_block_id == q - c.window_size \div 2
    IN  PySlice(bkm, left_block_id, left_block_id + BandLength(c))

\* _get_band_mask, third loop: the row of edge query block q at the back
MaskRollBack(c, bkm, q) ==
    LET left_block_id == q - c.window_size \div 2
    IN  [zero |-> TimesZero(PySlice(bkm, NumGlobalBlocksFront(c),
                     NumGlobalBlocksFront(c) + c.window_size
                         - (BlockedLength(c) - left_block_id
                                - NumGlobalBlocksBack(c)))),
         kept |-> PySlice(bkm, left_block_id, 0 - NumGlobalBlocksBack(c))]

\* BigBirdSparseAttention._get_band_mask: ok tells whether every operation of
\* it is accepted; val[i][a] is the mask row of position a of the i-th
\* non-global query block, one value per gathered key column
GetBandMask(c, blocked_query_mask, blocked_key_mask) ==
    LET GB == NumGlobalBlocksBack(c)
        GF == NumGlobalBlocksFront(c)
        G == c.num_global_blocks
        W == c.window_size
        L == BlockedLength(c)
        temp_query_mask == PySlice(blocked_query_mask, GF, 0 - GB)
        temp_key_mask_front == PySlice(blocked_key_mask, 0, GF)
        temp_key_mask_back == PySlice(blocked_key_mask, 0 - GB, L)
        front_ids == Range(GF, GF + W \div 2)
        rolls1 == [n \in 1..Len(front_ids) |->
                     MaskRollFront(c, blocked_key_mask, front_ids[n])]
        roll_key_mask1 == [n \in 1..Len(rolls1) |->
                             rolls1[n].kept \o rolls1[n].zero]
        band_ids == Range(GF + W \div 2, GF + W \div 2 + W)
        pieces == [n \in 1..Len(band_ids) |->
                     MaskBandPiece(c, blocked_key_mask, band_ids[n])]
        band_key_mask == [j \in 1..Len(pieces[1]) |->
                            [n \in 1..Len(pieces) |-> pieces[n][j]]]
        back_ids == Range((L - GB) - W \div 2, L - GB)
        rolls2 == [n \in 1..Len(back_ids) |->
                     MaskRollBack(c, blocked_key_mask, back_ids[n])]
        roll_key_mask2 == [n \in 1..Len(rolls2) |->
                             rolls2[n].zero \o rolls2[n].kept]
        window_key_mask == roll_key_mask1 \o band_key_mask \o roll_key_mask2
        key_row(i) == Flatten(temp_key_mask_front)
                          \o Flatten(window_key_mask[i])
                          \o Flatten(temp_key_mask_back)
        ok ==
            \* reshape to [B, L - G, bs, 1]
            /\ Allowed(c, temp_query_mask)
            /\ Len(temp_query_mask) = L - G
            \* reshape to [B, 1, 1, GF * bs], expand to [B, L - G, 1, GF * bs]
            /\ Allowed(c, temp_key_mask_front)
            /\ Len(temp_key_mask_front) = GF
            \* reshape to [B, 1, 1, GB * bs], expand to [B, L - G, 1, GB * bs]
            /\ Allowed(c, temp_key_mask_back)
            /\ Len(temp_key_mask_back) = GB
            \* concat of the rows of the first loop, reshape to [B, ., W * bs]
            /\ Len(rolls1) > 0
            /\ \A n \in 1..Len(rolls1) :
                /\ Allowed(c, rolls1[n].kept) /\ Allowed(c, rolls1[n].zero)
                /\ Len(roll_key_mask1[n]) = W
            \* concat of the pieces of the second loop along the block axis
            /\ Len(pieces) > 0
            /\ \A n \in 1..Len(pieces) :
                /\ Allowed(c, pieces[n])
                /\ Len(pieces[n]) = Len(pieces[1])
            \* concat of the rows of the third loop, reshape to [B, ., W * bs]
            /\ Len(rolls2) > 0
            /\ \A n \in 1..Len(rolls2) :
                /\ Allowed(c, rolls2[n].kept) /\ Allowed(c, rolls2[n].zero)
                /\ Len(roll_key_mask2[n]) = W
            \* matmul with temp_query_mask and concat with the global masks
            /\ Len(window_key_mask) = Len(temp_query_mask)
    IN  IF ok
        THEN [ok |-> TRUE,
              val |-> [i \in 1..Len(temp_query_mask) |->
                         [a \in 1..c.block_size |->
                            [col \in 1..Len(key_row(i)) |->
                                temp_query_mask[i][a] * key_row(i)[col]]]]]
        ELSE [ok |-> FALSE, val |-> <<>>]

\* _get_band_matrix, first loop: the blocks gathered for edge query block q
\* at the front
MatrixRollFront(c, blocked_matrix, q) ==
    LET right_block_id == q + c.window_size \div 2
    IN  [head |-> PySlice(blocked_matrix, 0, right_block_id + 1),
         tail |-> PySlice(blocked_matrix,
                     0 - (c.num_global_blocks + c.window_size - right_block_id - 1),
                     BlockedLength(c))]

\* _get_band_matrix, second loop: blocked_matrix[:, :, left:left + band_length]
MatrixBandPiece(c, blocked_matrix, q) ==
    LET left_block_id == q - c.window_size \div 2
    IN  PySlice(blocked_matrix, left_block_id, left_block_id + BandLength(c))

\* _get_band_matrix, third loop: the blocks gathered for edge query block q
\* at the back
MatrixRollBack(c, blocked_matrix, q) ==
    LET left_block_id == q - c.window_size \div 2
    IN  [head |-> PySlice(blocked_matrix, 0,
                     c.num_global_blocks + c.window_size
                         - (BlockedLength(c) - left_block_id)),
         tail |-> PySlice(blocked_matrix, left_block_id, BlockedLength(c))]

\* paddle.expand of an axis of length Len(x) to length n: the axis is kept
\* when it has that length already, and an axis of length 1 is repeated
ExpandAxis(x, n) == IF Len(x) = n THEN x ELSE [k \in 1..n |-> x[1]]

\* paddle.expand accepts the target length n of an axis of length m: -1 keeps
\* the axis, a length of 0 needs a build with zero-size tensors
ExpandOk(c, m, n) ==
    \/ n = -1
    \/ n >= 1 /\ (m = n \/ m = 1)
    \/ n = 0 /\ c.zero_size /\ (m = 0 \/ m = 1)

\* the length an axis of length m has after paddle.expand to n
ExpandedLength(m, n) == IF n = -1 THEN m ELSE n

\* BigBirdSparseAttention._get_band_matrix: val[i] is the list of the rows of
\* blocked_matrix gathered for the i-th non-global query block
GetBandMatrix(c, blocked_matrix) ==
    LET GB == NumGlobalBlocksBack(c)
        GF == NumGlobalBlocksFront(c)
        G == c.num_global_blocks
        W == c.window_size
        L == BlockedLength(c)
        front_ids == Range(GF, GF + W \div 2)
        rolls1 == [n \in 1..Len(front_ids) |->
                     MatrixRollFront(c, blocked_matrix, front_ids[n])]
        band_ids == Range(GF + W \div 2, GF + W \div 2 + W)
        pieces == [n \in 1..Len(band_ids) |->
                     MatrixBandPiece(c, blocked_matrix, band_ids[n])]
        global_blocked_front_matrix == PySlice(blocked_matrix, 0, GF)
        global_blocked_back_matrix == PySlice(blocked_matrix, 0 - GB, L)
        band_matrix == [j \in 1..Len(pieces[1]) |->
                          ExpandAxis(global_blocked_front_matrix, GF)
                              \o [n \in 1..Len(pieces) |-> pieces[n][j]]
                              \o ExpandAxis(global_blocked_back_matrix, GB)]
        back_ids == Range(L - GB - W \div 2, L - GB)
        rolls2 == [n \in 1..Len(back_ids) |->
                     MatrixRollBack(c, blocked_matrix, back_ids[n])]
        blocked_list ==
            [n \in 1..Len(rolls1) |-> rolls1[n].head \o rolls1[n].tail]
                \o band_matrix
                \o [n \in 1..Len(rolls2) |-> rolls2[n].head \o rolls2[n].tail]
        ok ==
            \* concat of the two slices of a row of the first loop
            /\ \A n \in 1..Len(rolls1) :
                Allowed(c, rolls1[n].head) /\ Allowed(c, rolls1[n].tail)
            \* concat of the pieces of the second loop along a new axis
            /\ Len(pieces) > 0
            /\ \A n \in 1..Len(pieces) :
                /\ Allowed(c, pieces[n])
                /\ Len(pieces[n]) = Len(pieces[1])
            \* expand to [B, H, band_length, GF, bs, -1]
            /\ Allowed(c, global_blocked_front_matrix)
            /\ ExpandOk(c, 1, BandLength(c))
            /\ ExpandOk(c, Len(global_blocked_front_matrix), GF)
            \* expand to [B, H, band_length, GB, bs, -1]
            /\ Allowed(c, global_blocked_back_matrix)
            /\ ExpandOk(c, Len(global_blocked_back_matrix), GB)
            \* concat of the global blocks and the band along the column axis
            /\ ExpandedLength(1, BandLength(c)) = Len(pieces[1])
            \* concat of the two slices of a row of the third loop
            /\ \A n \in 1..Len(rolls2) :
                Allowed(c, rolls2[n].head) /\ Allowed(c, rolls2[n].tail)
            \* concat of blocked_list along the row axis: rows of one width
            /\ \A n \in 1..Len(blocked_list) :
                Len(blocked_list[n]) = GF + W + GB
            \* reshape to [B, H, L - G, (G + W) * bs, -1] keeps the last axis
            \* only for L - G rows of G + W blocks
            /\ Len(blocked_list) = L - G
            /\ GF + W + GB = G + W
    IN  IF ok
        THEN [ok |-> TRUE,
              val |-> [i \in 1..Len(blocked_list) |-> Flatten(blocked_list[i])]]
        ELSE [ok |-> FALSE, val |-> <<>>]

\* a variant of lines 762-785 that appends, for the i-th non-global query
\* block, the positions of the key blocks listed for it in rand_mask_idx,
\* with mask 1, as the commented-out lines 763-769 would
SecondOutWithRandom(c, blocked_query_matrix, second_mask, second_key_matrix) ==
    LET second_query_matrix ==
            PySlice(blocked_query_matrix, NumGlobalBlocksFront(c),
                    0 - NumGlobalBlocksBack(c))
        ok ==
            /\ Allowed(c, second_query_matrix)
            /\ Len(second_query_matrix) = Len(second_key_matrix)
            /\ Len(second_mask) = Len(second_key_matrix)
            /\ \A i \in 1..Len(second_key_matrix) : \A a \in 1..c.block_size :
                Len(second_mask[i][a]) = Len(second_key_matrix[i])
        listed(i) == IF c.rand_mask_idx.given /\ i <= Len(c.rand_mask_idx.rows)
                     THEN c.rand_mask_idx.rows[i] ELSE <<>>
        random_keys(i) ==
            [n \in 1..(Len(listed(i)) * c.block_size) |->
                [key |-> listed(i)[(n - 1) \div c.block_size + 1] * c.block_size
                             + ((n - 1) % c.block_size),
                 mask |-> 1]]
        rows == [i \in 1..Len(second_query_matrix) |->
                   [a \in 1..c.block_size |->
                      [query |-> second_query_matrix[i][a],
                       cols |-> [col \in 1..Len(second_key_matrix[i]) |->
                                   [key |-> second_key_matrix[i][col],
                                    mask |-> second_mask[i][a][col]]]
                                    \o random_keys(i)]]]
    IN  IF ok THEN [ok |-> TRUE, val |-> Flatten(rows)]
        ELSE [ok |-> FALSE, val |-> <<>>]

\* lines 762-785 of forward: the product of the non-global query blocks with
\* the gathered keys, the penalty (1 - second_mask) * -1e6, the softmax and the
\* product with the gathered values, reshaped to [B, H, (L - G) * bs, -1]
SecondOut(c, blocked_query_matrix, second_mask, second_key_matrix) ==
    LET second_query_matrix ==
            PySlice(blocked_query_matrix, NumGlobalBlocksFront(c),
                    0 - NumGlobalBlocksBack(c))
        ok ==
            /\ Allowed(c, second_query_matrix)
            /\ Len(second_query_matrix) = Len(second_key_matrix)
            /\ Len(second_mask) = Len(second_key_matrix)
            /\ \A i \in 1..Len(second_key_matrix) : \A a \in 1..c.block_size :
                Len(second_mask[i][a]) = Len(second_key_matrix[i])
        rows == [i \in 1..Len(second_query_matrix) |->
                   [a \in 1..c.block_size |->
                      [query |-> second_query_matrix[i][a],
                       cols |-> [col \in 1..Len(second_key_matrix[i]) |->
                                   [key |-> second_key_matrix[i][col],
                                    mask |-> second_mask[i][a][col]]]]]]
    IN  IF ok THEN [ok |-> TRUE, val |-> Flatten(rows)]
        ELSE [ok |-> FALSE, val |-> <<>>]

\* a variant of the last lines of forward that leaves out the product with
\* query_mask
MaskedOutUnscaled(c, front, second, back) ==
    LET rows == front \o second \o back
    IN  [ok |-> Len(rows) = c.seq_len,
         val |-> [r \in 1..Len(rows) |->
                    [query |-> rows[r].query, cols |-> rows[r].cols,
                     scale |-> 1]]]

\* lines 788-790 of forward: concat of the three parts along the sequence
\* axis, and the product with query_mask ([B, 1, T, 1], broadcast)
MaskedOut(c, front, second, back) ==
    LET rows == front \o second \o back
        N == Len(rows)
        T == c.seq_len
    IN  IF N = T \/ N = 1 \/ T = 1
        THEN [ok |-> TRUE,
              val |-> [r \in 1..Max(N, T) |->
                         [query |-> rows[IF N = 1 THEN 1 ELSE r].query,
                          cols |-> rows[IF N = 1 THEN 1 ELSE r].cols,
                          scale |-> c.query_mask[IF T = 1 THEN 1 ELSE r]]]]
        ELSE [ok |-> FALSE, val |-> <<>>]

\* a call that raises
Raised == [ok |-> FALSE, val |-> <<>>]

\* BigBirdSparseAttention.forward from the first statement to the last: the
\* output, or the fact that a statement raised
BigBirdForward(c) ==
    IF c.seq_len % c.block_size # 0 THEN Raised
    ELSE
    LET blocked_matrix ==
            Blocked([t \in 1..c.seq_len |-> t - 1], BlockedLength(c), c.block_size)
        front == GetGlobalOut(c, TRUE)
        back == GetGlobalOut(c, FALSE)
        mask == GetBandMask(c,
                    Blocked(c.query_mask, BlockedLength(c), c.block_size),
                    Blocked(c.key_mask, BlockedLength(c), c.block_size))
        keys == GetBandMatrix(c, blocked_matrix)
    IN  IF ~ front.ok \/ ~ back.ok THEN Raised
        ELSE IF ~ mask.ok THEN Raised
        ELSE IF ~ keys.ok THEN Raised
        ELSE \* second is bound once
             CHOOSE r \in {LET second == SecondOut(c, blocked_matrix,
                                                   mask.val, keys.val)
                           IN  IF ~ second.ok THEN Raised
                               ELSE LET res == MaskedOut(c, front.val, second.val,
                                                         back.val)
                                    IN IF res.ok THEN res ELSE Raised} : TRUE

(***************************************************************************)
(* The programs.  Under Spec, Mask objects are constructed one after       *)
(* another with the same arguments, other code drawing from np.random in   *)
(* between.  Under SpecForward, one call of BigBirdSparseAttention.forward *)
(* runs statement by statement.                                            *)
(***************************************************************************)

\* the values of the variables of a program that does not run
NoArgs == [query_length |-> 1, key_length |-> 1, num_heads |-> 1,
           block_size |-> 1, window_size |-> 1, num_global_blocks |-> 0,
           num_rand_blocks |-> 0, seed |-> 0]
\* an optional tensor argument that is None
NoTensor == [given |-> FALSE, rows |-> <<>>]
NoCall == [seq_len |-> 1, block_size |-> 1, window_size |-> 1,
           num_global_blocks |-> 0, zero_size |-> FALSE,
           query_mask |-> <<1>>, key_mask |-> <<1>>,
           attn_mask |-> NoTensor, rand_mask_idx |-> NoTensor]

\* a layer that is not constructed, no cache, no call of forward
NoLayer == [status |-> "none", embed_dim |-> 0, num_heads |-> 0,
            head_dim |-> 0, attention_type |-> "", sublayers |-> {}]
NoCache == [type |-> "None", k |-> <<>>, v |-> <<>>]
NoForward == [count |-> 0, status |-> "none", key |-> <<>>, value |-> <<>>,
              q |-> <<>>, k |-> <<>>, v |-> <<>>, out |-> <<>>]

mask_vars == <<args, rng, masks, draws>>
forward_vars == <<attn, pc, global_front_out, global_back_out, band_mask,
                  band_keys_matrix, second_out, out>>
list_vars == <<attn_mask_list, rand_mask_idx_list>>
mha_vars == <<mha, cache, call>>

NoLists == attn_mask_list = <<>> /\ rand_mask_idx_list = <<>>

\* no call of get_float_mask or create_bigbird_rand_mask_idx(_list) yet
result_vars == <<float_mask, idx_calls>>
NoResults == float_mask = <<>> /\ idx_calls = <<>>
NoAttention == mha = NoLayer /\ cache = NoCache /\ call = NoForward

\* the arguments of a construction over 64 positions in 4 blocks of 16, with
\* 2 heads, a window of 3 blocks, 2 global blocks, 1 random block and seed 42
FourBlockArgs ==
    [query_length |-> 64, key_length |-> 64, num_heads |-> 2,
     block_size |-> 16, window_size |-> 3, num_global_blocks |-> 2,
     num_rand_blocks |-> 1, seed |-> 42]

\* the arguments of a call over 5 positions in 5 blocks of 1, with 1 head, a
\* window of 1 block, 2 global blocks, 1 random block and seed 0: the
\* shortest sequence for which a query block of a geometry with 2 global
\* blocks has a legal key block
FiveBlockArgs ==
    [query_length |-> 5, key_length |-> 5, num_heads |-> 1,
     block_size |-> 1, window_size |-> 1, num_global_blocks |-> 2,
     num_rand_blocks |-> 1, seed |-> 0]

Init ==
    /\ args \in [query_length : Lengths, key_length : Lengths,
                 num_heads : HeadCounts, block_size : BlockSizes,
                 window_size : WindowSizes, num_global_blocks : GlobalCounts,
                 num_rand_blocks : RandCounts, seed : Seeds]
                \cup {FourBlockArgs, FiveBlockArgs}
    /\ rng \in 0..(RngStates - 1)
    /\ masks = <<>>
    /\ draws = 0
    /\ attn = NoCall
    /\ pc = "idle"
    /\ global_front_out = <<>>
    /\ global_back_out = <<>>
    /\ band_mask = <<>>
    /\ band_keys_matrix = <<>>
    /\ second_out = <<>>
    /\ out = <<>>
    /\ NoLists
    /\ NoResults
    /\ NoAttention

\* Mask(query_length, ..., seed)
NewMask ==
    /\ Len(masks) < MaxMasks
    /\ \E r \in {MaskInit(args, rng)} :
           /\ masks' = Append(masks, r.obj)
           /\ rng' = r.rng
    /\ UNCHANGED <<args, draws>>
    /\ UNCHANGED <<forward_vars, list_vars, mha_vars, result_vars>>

\* any other use of np.random between two constructions
RandomDraw ==
    /\ Len(masks) >= 1
    /\ draws < MaxDraws
    /\ rng' = RngNext(rng)
    /\ draws' = draws + 1
    /\ UNCHANGED <<args, masks>>
    /\ UNCHANGED <<forward_vars, list_vars, mha_vars, result_vars>>

Next == NewMask \/ RandomDraw

Spec == Init /\ [][Next]_vars

\* Under SpecFloatMask one Mask is constructed and its get_float_mask is
\* called any number of times.
FirstMask == Len(masks) = 0 /\ NewMask

\* mask.get_float_mask()
FloatMaskCall ==
    /\ Len(masks) >= 1
    /\ masks[1].status = "ok"
    /\ \E r \in {GetFloatMaskCall(masks[1])} :
        /\ float_mask' = <<r.result>>
        /\ masks' = [masks EXCEPT ![1] = r.obj]
    /\ UNCHANGED <<args, rng, draws, idx_calls>>
    /\ UNCHANGED <<forward_vars, list_vars, mha_vars>>

NextFloatMask == FirstMask \/ FloatMaskCall

SpecFloatMask == Init /\ [][NextFloatMask]_vars

\* Under SpecRandIdx the functions create_bigbird_rand_mask_idx and
\* create_bigbird_rand_mask_idx_list are called with the arguments args, and
\* other code draws from np.random in between.  A call is recorded with its
\* function, num_layers, outcome and result.
RandMaskIdx ==
    /\ Len(idx_calls) < MaxIdxCalls
    /\ \E r \in {CreateRandMaskIdx(args, rng)} :
        /\ idx_calls' = Append(idx_calls,
               [list |-> FALSE, num_layers |-> 1, ok |-> r.ok,
                value |-> IF r.ok THEN r.value ELSE <<>>])
        /\ rng' = r.rng
    /\ UNCHANGED <<args, masks, draws, float_mask>>
    /\ UNCHANGED <<forward_vars, list_vars, mha_vars>>

RandMaskIdxList ==
    /\ Len(idx_calls) < MaxIdxCalls
    /\ \E num_layers \in 1..MaxLayers :
        \E r \in {CreateRandMaskIdxList(num_layers, args, rng)} :
            /\ idx_calls' = Append(idx_calls,
                   [list |-> TRUE, num_layers |-> num_layers, ok |-> r.ok,
                    value |-> IF r.ok THEN r.value ELSE <<>>])
            /\ rng' = r.rng
    /\ UNCHANGED <<args, masks, draws, float_mask>>
    /\ UNCHANGED <<forward_vars, list_vars, mha_vars>>

\* any other use of np.random between two calls
IdxRandomDraw ==
    /\ Len(idx_calls) >= 1
    /\ draws < MaxDraws
    /\ rng' = RngNext(rng)
    /\ draws' = draws + 1
    /\ UNCHANGED <<args, masks, float_mask, idx_calls>>
    /\ UNCHANGED <<forward_vars, list_vars, mha_vars>>

NextRandIdx == RandMaskIdx \/ RandMaskIdxList \/ IdxRandomDraw

SpecRandIdx == Init /\ [][NextRandIdx]_vars

\* create_bigbird_simulated_attention_mask_list(num_layers, ..., seed)
MaskList ==
    /\ pc = "idle"
    /\ \E num_layers \in 1..MaxLayers :
        \E r \in {CreateMaskList(num_layers, args, rng)} :
            /\ attn_mask_list' = r.attn_mask_list
            /\ rand_mask_idx_list' = r.rand_mask_idx_list
            /\ rng' = r.rng
            /\ pc' = IF r.ok THEN "returned" ELSE "raised"
    /\ UNCHANGED <<args, masks, draws, attn, global_front_out, global_back_out,
                   band_mask, band_keys_matrix, second_out, out>>
    /\ UNCHANGED <<mha_vars, result_vars>>

NextLayers == MaskList

SpecLayers == Init /\ [][NextLayers]_vars

\* DefaultAttention.forward (lines 390-416) for one batch element and head:
\* row n is query position n - 1 attending to all key positions, the score of
\* key t increased by attn_mask[n][t] when attn_mask is given (it is a
\* sequence of rows of additive values, <<>> stands for None).  A column
\* keeps mask 1 where nothing negative was added.  With dropout 0 the output
\* row is softmax(row) times the values.
DefaultAttention(num_queries, num_keys, attn_mask) ==
    [n \in 1..num_queries |->
        [query |-> n - 1,
         cols |-> [t \in 1..num_keys |->
                     [key |-> t - 1,
                      mask |-> IF attn_mask # <<>> /\ attn_mask[n][t] < 0
                               THEN 0 ELSE 1]],
         scale |-> 1]]

\* a padding mask: 1 at the first n positions, 0 at the others
PaddingMask(T, n) == [t \in 1..T |-> IF t <= n THEN 1 ELSE 0]

\* an attn_mask argument of forward: one row of T values, broadcast
AttnMaskArg(T) == [given |-> TRUE, rows |-> <<[t \in 1..T |-> 0]>>]

\* a rand_mask_idx argument of forward: one key block for each query block
RandMaskIdxArg(T, bs) ==
    [given |-> TRUE, rows |-> [i \in 1..(T \div bs) |-> <<(i + 1) % (T \div bs)>>]]

InitForward ==
    /\ \E T \in 1..MaxSeqLen, bs \in AttnBlockSizes, W \in AttnWindowSizes,
          G \in AttnGlobalCounts, zs \in BOOLEAN :
         \E nq \in 0..T, nk \in 0..T :
            \E attn_mask \in {NoTensor, AttnMaskArg(T)},
               rand_mask_idx \in {NoTensor, RandMaskIdxArg(T, bs)} :
                attn = [seq_len |-> T, block_size |-> bs, window_size |-> W,
                        num_global_blocks |-> G, zero_size |-> zs,
                        query_mask |-> PaddingMask(T, nq),
                        key_mask |-> PaddingMask(T, nk),
                        attn_mask |-> attn_mask,
                        rand_mask_idx |-> rand_mask_idx]
    /\ pc = "reshape"
    /\ global_front_out = <<>>
    /\ global_back_out = <<>>
    /\ band_mask = <<>>
    /\ band_keys_matrix = <<>>
    /\ second_out = <<>>
    /\ out = <<>>
    /\ args = NoArgs
    /\ rng = 0
    /\ masks = <<>>
    /\ draws = 0
    /\ NoLists
    /\ NoResults
    /\ NoAttention

\* the rows of the query, key and value matrix, named by their position
Positions(c) == [t \in 1..c.seq_len |-> t - 1]

\* lines 723-727: the reshapes to [B, H, L, bs, -1] and [B, L, bs]
Reshape ==
    /\ pc = "reshape"
    /\ pc' = IF attn.seq_len % attn.block_size = 0
             THEN "global_front" ELSE "error"
    /\ UNCHANGED <<attn, global_front_out, global_back_out, band_mask,
                   band_keys_matrix, second_out, out>>
    /\ UNCHANGED <<mask_vars, list_vars, mha_vars, result_vars>>

\* lines 731-732
GlobalFront ==
    /\ pc = "global_front"
    /\ \E r \in {GetGlobalOut(attn, TRUE)} :
           IF r.ok
           THEN global_front_out' = r.val /\ pc' = "global_back"
           ELSE pc' = "error" /\ UNCHANGED global_front_out
    /\ UNCHANGED <<attn, global_back_out, band_mask, band_keys_matrix,
                   second_out, out>>
    /\ UNCHANGED <<mask_vars, list_vars, mha_vars, result_vars>>

\* lines 735-737
GlobalBack ==
    /\ pc = "global_back"
    /\ \E r \in {GetGlobalOut(attn, FALSE)} :
           IF r.ok
           THEN global_back_out' = r.val /\ pc' = "band_mask"
           ELSE pc' = "error" /\ UNCHANGED global_back_out
    /\ UNCHANGED <<attn, global_front_out, band_mask, band_keys_matrix,
                   second_out, out>>
    /\ UNCHANGED <<mask_vars, list_vars, mha_vars, result_vars>>

\* lines 743-750
BandMask ==
    /\ pc = "band_mask"
    /\ \E r \in {GetBandMask(attn,
                     Blocked(attn.query_mask, BlockedLength(attn), attn.block_size),
                     Blocked(attn.key_mask, BlockedLength(attn), attn.block_size))} :
           IF r.ok
           THEN band_mask' = r.val /\ pc' = "band_matrix"
           ELSE pc' = "error" /\ UNCHANGED band_mask
    /\ UNCHANGED <<attn, global_front_out, global_back_out, band_keys_matrix,
                   second_out, out>>
    /\ UNCHANGED <<mask_vars, list_vars, mha_vars, result_vars>>

\* lines 758-759: the keys and the values are gathered alike
BandMatrix ==
    /\ pc = "band_matrix"
    /\ \E r \in {GetBandMatrix(attn,
                     Blocked(Positions(attn), BlockedLength(attn),
                             attn.block_size))} :
           IF r.ok
           THEN band_keys_matrix' = r.val /\ pc' = "second"
           ELSE pc' = "error" /\ UNCHANGED band_keys_matrix
    /\ UNCHANGED <<attn, global_front_out, global_back_out, band_mask,
                   second_out, out>>
    /\ UNCHANGED <<mask_vars, list_vars, mha_vars, result_vars>>

\* lines 762-785
Second ==
    /\ pc = "second"
    /\ \E r \in {SecondOut(attn,
                     Blocked(Positions(attn), BlockedLength(attn),
                             attn.block_size),
                     band_mask, band_keys_matrix)} :
           IF r.ok
           THEN second_out' = r.val /\ pc' = "concat"
           ELSE pc' = "error" /\ UNCHANGED second_out
    /\ UNCHANGED <<attn, global_front_out, global_back_out, band_mask,
                   band_keys_matrix, out>>
    /\ UNCHANGED <<mask_vars, list_vars, mha_vars, result_vars>>

\* lines 788-791
Concat ==
    /\ pc = "concat"
    /\ \E r \in {MaskedOut(attn, global_front_out, second_out, global_back_out)} :
           IF r.ok
           THEN out' = r.val /\ pc' = "done"
           ELSE pc' = "error" /\ UNCHANGED out
    /\ UNCHANGED <<attn, global_front_out, global_back_out, band_mask,
                   band_keys_matrix, second_out>>
    /\ UNCHANGED <<mask_vars, list_vars, mha_vars, result_vars>>

NextForward ==
    \/ Reshape
    \/ GlobalFront
    \/ GlobalBack
    \/ BandMask
    \/ BandMatrix
    \/ Second
    \/ Concat

SpecForward == InitForward /\ [][NextForward]_vars

(***************************************************************************)
(* class MultiHeadAttention.  A tensor with a sequence axis is the sequence *)
(* of its rows; a row of an input is named by the argument it came in, the  *)
(* number of the call and its position, and a projection keeps the order of *)
(* the rows and marks each row with the projection applied to it.  An       *)
(* optional argument is a record with the field given, FALSE for None.      *)
(***************************************************************************)
\* the tensor passed as argument src of call number n, with len positions
Input(src, n, len) ==
    [given |-> TRUE,
     rows |-> [i \in 1..len |->
                 [proj |-> "none", src |-> src, call |-> n, pos |-> i]]]

\* Linear3D.forward: every position is multiplied by the weight of the
\* projection, position by position
Linear3D(name, input) ==
    [i \in 1..Len(input) |->
        [proj |-> name, src |-> input[i].src, call |-> input[i].call,
         pos |-> input[i].pos]]

\* a variant of the constructor without the divisibility check
MultiHeadAttentionInitUnchecked(embed_dim, num_heads, attention_type) ==
    [status |-> "ok", embed_dim |-> embed_dim, num_heads |-> num_heads,
     head_dim |-> embed_dim \div num_heads, attention_type |-> attention_type,
     sublayers |-> {"q_proj", "k_proj", "v_proj", "out_proj", "attn_impl"}]

\* MultiHeadAttention.__init__: the attributes are set, the assert of line 822
\* raises when head_dim * num_heads differs from embed_dim (the interpreter
\* executes assert statements), and only after it the projections and the
\* attention strategy are created
MultiHeadAttentionInit(embed_dim, num_heads, attention_type) ==
    LET head_dim == embed_dim \div num_heads
    IN  IF head_dim * num_heads # embed_dim
        THEN [status |-> "error", embed_dim |-> embed_dim,
              num_heads |-> num_heads, head_dim |-> head_dim,
              attention_type |-> attention_type, sublayers |-> {}]
        ELSE [status |-> "ok", embed_dim |-> embed_dim,
              num_heads |-> num_heads, head_dim |-> head_dim,
              attention_type |-> attention_type,
              sublayers |-> {"q_proj", "k_proj", "v_proj", "out_proj",
                             "attn_impl"}]

\* MultiHeadAttention.compute_kv
ComputeKv(key, value) ==
    [k |-> Linear3D("k_proj", key), v |-> Linear3D("v_proj", value)]

\* a variant of _prepare_qkv that keeps only the new keys and values in the
\* cache
PrepareQkvReplacing(query, key, value, c) ==
    LET kv == ComputeKv(key, value)
    IN  [q |-> Linear3D("q_proj", query), k |-> kv.k, v |-> kv.v,
         cache |-> [type |-> c.type, k |-> kv.k, v |-> kv.v]]

\* a variant of _prepare_qkv that projects key and value whatever the cache
PrepareQkvProjecting(query, key, value, c) ==
    LET kv == ComputeKv(key, value)
    IN  [q |-> Linear3D("q_proj", query),
         k |-> IF c.type = "Cache" THEN c.k \o kv.k ELSE kv.k,
         v |-> IF c.type = "Cache" THEN c.v \o kv.v ELSE kv.v,
         cache |-> IF c.type = "Cache"
                   THEN [type |-> "Cache", k |-> c.k \o kv.k, v |-> c.v \o kv.v]
                   ELSE c]

\* MultiHeadAttention._prepare_qkv: q, the keys and values given to the
\* attention, and the cache handed back
PrepareQkv(query, key, value, c) ==
    LET q == Linear3D("q_proj", query)
        kv == IF c.type = "StaticCache"
              THEN [k |-> c.k, v |-> c.v]
              ELSE ComputeKv(key, value)
    IN  IF c.type = "Cache"
        THEN [q |-> q, k |-> c.k \o kv.k, v |-> c.v \o kv.v,
              cache |-> [type |-> "Cache", k |-> c.k \o kv.k,
                         v |-> c.v \o kv.v]]
        ELSE [q |-> q, k |-> kv.k, v |-> kv.v, cache |-> c]

\* MultiHeadAttention.gen_cache(key, value, type).  A StaticCache projects
\* key and value (a value of None cannot be projected); without a value the
\* incremental cache is made of two tensors of shape [-1, H, 0, head_dim],
\* which the tensor library accepts or rejects depending on the build
\* (accepted tells which); with a value the cache holds key and value as they
\* are.
GenCache(key, value, type, accepted) ==
    IF type = "StaticCache"
    THEN IF value.given
         THEN [ok |-> TRUE,
               cache |-> [type |-> "StaticCache",
                          k |-> ComputeKv(key.rows, value.rows).k,
                          v |-> ComputeKv(key.rows, value.rows).v]]
         ELSE [ok |-> FALSE, cache |-> NoCache]
    ELSE IF ~ value.given
         THEN [ok |-> accepted,
               cache |-> [type |-> "Cache", k |-> <<>>, v |-> <<>>]]
         ELSE [ok |-> TRUE,
               cache |-> [type |-> "Cache", k |-> key.rows, v |-> value.rows]]

\* self.attn_impl(q, k, v, ...): every query row attends to the rows of k and
\* takes the rows of v.  DefaultAttention needs as many values as keys;
\* BigBirdSparseAttention also needs as many keys as queries, and whether it
\* returns then depends on the geometry of the call (block_ok).
AttnImpl(layer, q, k, v, block_ok) ==
    [ok |-> /\ Len(k) = Len(v)
            /\ layer.attention_type = "bigbird" => (Len(k) = Len(q) /\ block_ok),
     out |-> [n \in 1..Len(q) |-> [query |-> q[n], keys |-> k, values |-> v]]]

\* MultiHeadAttention.forward(query, key, value, cache = c): the call as it is
\* recorded, numbered count, and the cache the caller holds afterwards
Forward(layer, count, query, key, value, c, block_ok) ==
    LET p == PrepareQkv(query.rows,
                        IF key.given THEN key.rows ELSE query.rows,
                        IF value.given THEN value.rows ELSE query.rows, c)
        a == AttnImpl(layer, p.q, p.k, p.v, block_ok)
    IN  [call |-> [count |-> count,
                   status |-> IF a.ok THEN "returned" ELSE "raised",
                   key |-> IF key.given THEN key.rows ELSE query.rows,
                   value |-> IF value.given THEN value.rows ELSE query.rows,
                   q |-> p.q, k |-> p.k, v |-> p.v,
                   out |-> IF a.ok
                           THEN [n \in 1..Len(a.out) |->
                                    [proj |-> "out_proj", attn |-> a.out[n]]]
                           ELSE <<>>],
         cache |-> IF a.ok THEN p.cache ELSE c]

\* Under SpecAttention a MultiHeadAttention layer is constructed, caches are
\* generated with gen_cache and forward is called with the cache the caller
\* holds, which is replaced by the cache forward returns.
InitAttention ==
    /\ NoAttention
    /\ NoLists
    /\ NoResults
    /\ args = NoArgs
    /\ rng = 0
    /\ masks = <<>>
    /\ draws = 0
    /\ attn = NoCall
    /\ pc = "idle"
    /\ global_front_out = <<>>
    /\ global_back_out = <<>>
    /\ band_mask = <<>>
    /\ band_keys_matrix = <<>>
    /\ second_out = <<>>
    /\ out = <<>>

\* MultiHeadAttention(embed_dim, num_heads, attention_type = ...)
Construct ==
    /\ mha.status = "none"
    /\ \E embed_dim \in EmbedDims, num_heads \in MhaHeadCounts,
          attention_type \in AttentionTypes :
        mha' = MultiHeadAttentionInit(embed_dim, num_heads, attention_type)
    /\ UNCHANGED <<cache, call>>
    /\ UNCHANGED <<mask_vars, forward_vars, list_vars, result_vars>>

\* cache = layer.gen_cache(key, value, type); when gen_cache raises the caller
\* keeps what it held
NewCache ==
    /\ mha.status = "ok"
    /\ \E type \in {"Cache", "StaticCache"}, len \in NewLengths,
          with_value \in BOOLEAN, accepted \in BOOLEAN :
        LET r == GenCache(Input("key", 0, len),
                          IF with_value THEN Input("value", 0, len)
                          ELSE NoTensor,
                          type, accepted)
        IN  cache' = IF r.ok THEN r.cache ELSE cache
    /\ UNCHANGED <<mha, call>>
    /\ UNCHANGED <<mask_vars, forward_vars, list_vars, result_vars>>

\* out, cache = layer(query, key, value, cache = cache): self-attention (key
\* and value None) or attention to a key and a value of a length of their own
ForwardCall ==
    /\ mha.status = "ok"
    /\ call.count < MaxCalls
    /\ \E len \in NewLengths, key_len \in NewLengths \cup {0},
          block_ok \in BOOLEAN :
        LET n == call.count + 1
            r == Forward(mha, n, Input("query", n, len),
                         IF key_len = 0 THEN NoTensor
                         ELSE Input("key", n, key_len),
                         IF key_len = 0 THEN NoTensor
                         ELSE Input("value", n, key_len),
                         cache, block_ok)
        IN  /\ call' = r.call
            /\ cache' = r.cache
    /\ UNCHANGED mha
    /\ UNCHANGED <<mask_vars, forward_vars, list_vars, result_vars>>

NextAttention == Construct \/ NewCache \/ ForwardCall

SpecAttention == InitAttention /\ [][NextAttention]_vars

(***************************************************************************)
(* Properties of Mask                                                      *)
(***************************************************************************)
Completed(m) == m.status = "ok"

\* key blocks outside the illegal set of a query block
LegalBlocks(a, query_block_idx) ==
    (0..(NumKeyBlocks(a) - 1)) \ IllegalBlocksIdx(a, query_block_idx)

\* the blocks chosen for (head, query block), as a sequence
Picked(m, head, query_block_idx) == m.picked[head][query_block_idx + 1]

SeqRange(seq) == {seq[n] : n \in 1..Len(seq)}

NonGlobalQueryBlocks(a) == a.num_global_blocks..(NumQueryBlocks(a) - 1)

\* C1: two constructions of Mask with the same geometry and the same seed give
\* the same outcome, the same mask and the same rand_mask_idx list, for every
\* seed value (0 included) and whatever was drawn from np.random in between.
C1_SameSeedSameMask ==
    \A m, n \in 1..Len(masks) :
        /\ masks[m].status = masks[n].status
        /\ masks[m].mask = masks[n].mask
        /\ masks[m].rand_mask_idx = masks[n].rand_mask_idx

\* C2: for every head and every non-global query block with at least
\* num_rand_blocks legal key blocks, exactly num_rand_blocks key blocks are
\* chosen, pairwise distinct, in [0, num_key_blocks), not global and not in the
\* window of the query block.
C2_ExactlyNumRandBlocks ==
    \A n \in 1..Len(masks) : \A h \in AllHeads(args) :
        \A q \in NonGlobalQueryBlocks(args) :
            Cardinality(LegalBlocks(args, q)) >= args.num_rand_blocks =>
                LET chosen == Picked(masks[n], h, q)
                IN  /\ Len(chosen) = args.num_rand_blocks
                    /\ Cardinality(SeqRange(chosen)) = Len(chosen)
                    /\ \A b \in SeqRange(chosen) :
                        /\ 0 <= b /\ b < NumKeyBlocks(args)
                        /\ b >= args.num_global_blocks
                        /\ ~ (q - NumWindowBlocks(args) <= b
                              /\ b <= q + NumWindowBlocks(args))

\* rows of rand_mask_idx[:, num_global_blocks:]
NumRandRows(a) == Max(0, NumQueryBlocks(a) - a.num_global_blocks)

\* the list is laid out head by head, query block by query block, slot by
\* slot, with k entries for each (head, query block) pair
RowMajor(m, a, k) ==
    /\ Len(m.rand_mask_idx) = a.num_heads * NumRandRows(a) * k
    /\ \A h \in AllHeads(a) : \A j \in 0..(NumRandRows(a) - 1) : \A s \in 0..(k - 1) :
        LET entry == m.rand_mask_idx[(h * NumRandRows(a) + j) * k + s + 1]
        IN  /\ entry[1] = h
            /\ entry[2] = Picked(m, h, a.num_global_blocks + j)[s + 1]

\* C3 as stated: the list returned by get_rand_mask_idx has
\* num_heads * (num_query_blocks - num_global_blocks) * num_rand_blocks entries
\* [head, key block] in row-major (head, query block, slot) order.
C3_RowMajorNumRandBlocks ==
    \A n \in 1..Len(masks) :
        Completed(masks[n]) => RowMajor(masks[n], args, args.num_rand_blocks)

\* the number of blocks chosen for every (head, query block) pair of a
\* completed Mask
PickedPerPair(m) == Len(Picked(m, 0, 0))

EnoughLegalBlocks(a) ==
    \A q \in 0..(NumQueryBlocks(a) - 1) :
        Cardinality(LegalBlocks(a, q)) >= a.num_rand_blocks

\* C3 amended: when construction completes, the list has
\* num_heads * (number of non-global query blocks) * k entries in row-major
\* (head, query block, slot) order, k being the number of key blocks chosen
\* for each pair; k is num_rand_blocks when num_rand_blocks >= 1 and every
\* query block has that many legal key blocks.
C3_RowMajorPickedBlocks ==
    \A n \in 1..Len(masks) :
        Completed(masks[n]) =>
            /\ RowMajor(masks[n], args, PickedPerPair(masks[n]))
            /\ (args.num_rand_blocks >= 1 /\ EnoughLegalBlocks(args)) =>
                   PickedPerPair(masks[n]) = args.num_rand_blocks

\* two heads, two non-global query blocks, two blocks asked for and one chosen
C3_Witness ==
    /\ Len(masks) >= 1
    /\ Completed(masks[1])
    /\ args.num_heads = 2
    /\ NumRandRows(args) >= 2
    /\ args.num_rand_blocks = 2
    /\ PickedPerPair(masks[1]) = 1
    /\ Len(masks[1].rand_mask_idx) = 2 * NumRandRows(args)

NumChosen(a, q) == Min(a.num_rand_blocks, Cardinality(LegalBlocks(a, q)))

\* some query block has fewer than num_rand_blocks legal key blocks
UnderFilled(a) ==
    \E q \in 0..(NumQueryBlocks(a) - 1) :
        Cardinality(LegalBlocks(a, q)) < a.num_rand_blocks

\* C14: when some query block has fewer than num_rand_blocks legal key blocks
\* the construction raises no error and completes, every (head, query block)
\* pair holding as many blocks as are legal, whether all query blocks end up
\* with the same number of blocks or with different numbers.
C14_UnderFillCompletes ==
    \A n \in 1..Len(masks) :
        UnderFilled(args) =>
            /\ Completed(masks[n])
            /\ \A h \in AllHeads(args) : \A q \in 0..(NumQueryBlocks(args) - 1) :
                Len(Picked(masks[n], h, q)) = NumChosen(args, q)

MaskDraws(a) ==
    NumQueryBlocks(a) * a.num_heads * DrawsPerPermutation(NumKeyBlocks(a))

\* C16: create_bigbird_simulated_attention_mask_list returns one mask and one
\* random-block index list for each layer, and the random blocks of each
\* layer are chosen from a generator state different from the state the
\* previous layer's were chosen from (whenever a construction draws from the
\* generator and does not run through its whole cycle).
C16_LayersUseDifferentStates ==
    [][(pc = "idle" /\ pc' = "returned" /\ MaskDraws(args) % RngStates # 0) =>
          /\ Len(attn_mask_list') = Len(rand_mask_idx_list')
          /\ \A i \in 1..(Len(rand_mask_idx_list') - 1) :
              SeedGenerator(args, LayerState(args, rng, i + 1))
                  # SeedGenerator(args, LayerState(args, rng, i))]_vars

\* the sequence lengths are whole numbers of blocks and the window leaves
\* at least one block: T // block_size - G - 2 * (window_size // 2) > 0
WholeBlocks(a) ==
    /\ a.query_length % a.block_size = 0
    /\ a.key_length % a.block_size = 0
WindowFits(a) ==
    /\ a.query_length \div a.block_size - a.num_global_blocks
           - 2 * (a.window_size \div 2) > 0
    /\ a.key_length \div a.block_size - a.num_global_blocks
           - 2 * (a.window_size \div 2) > 0

\* C19: a construction of Mask for a sequence length that is not a multiple
\* of block_size, or for a window_size too large for the number of blocks
\* (T // block_size - G - 2 * (window_size // 2) <= 0), is rejected with an
\* error: no mask is built for it.
C19_MaskRejectsBadGeometry ==
    \A n \in 1..Len(masks) :
        (~ WholeBlocks(args) \/ ~ WindowFits(args)) => ~ Completed(masks[n])

\* the key blocks listed in rand_mask_idx for head h and the j-th non-global
\* query block, k blocks being listed for each pair
ListedBlocks(m, a, h, j, k) ==
    {m.rand_mask_idx[(h * NumRandRows(a) + j) * k + s + 1][2] : s \in 0..(k - 1)}

\* C26: when the construction completes, for every head and every query
\* block the key positions that are 1 in rand_mask on the rows of the query
\* block are exactly the positions of the key blocks chosen for the pair, and
\* for a non-global query block the chosen blocks are exactly the blocks
\* listed for the pair in rand_mask_idx.
C26_RandMaskMatchesPicked ==
    \A n \in 1..Len(masks) :
        Completed(masks[n]) =>
            \A m \in {masks[n]} :
                /\ \A p \in MaskIndex(args) :
                    (m.rand_mask[p] = 1) <=>
                        (p[3] \div args.block_size
                             \in SeqRange(Picked(m, p[1], p[2] \div args.block_size)))
                /\ \A p \in MaskIndex(args) : m.rand_mask[p] \in {0, 1}
                /\ \A h \in AllHeads(args) : \A j \in 0..(NumRandRows(args) - 1) :
                    ListedBlocks(m, args, h, j, PickedPerPair(m))
                        = SeqRange(Picked(m, h, args.num_global_blocks + j))

\* a completed construction with two heads, two blocks chosen for each pair,
\* and global and non-global query blocks
C26_Witness ==
    /\ Len(masks) >= 1
    /\ Completed(masks[1])
    /\ args.num_rand_blocks = 2
    /\ PickedPerPair(masks[1]) = 2
    /\ args.num_global_blocks >= 1
    /\ NumRandRows(args) >= 1
    /\ args.num_heads = 2
    /\ \E p \in MaskIndex(args) : masks[1].rand_mask[p] = 1
    /\ \E p \in MaskIndex(args) : masks[1].rand_mask[p] = 0

\* C21: a call of get_float_mask on a constructed Mask returns a mask of the
\* same shape that holds 0 where the stored mask is 1 and -inf where it is 0,
\* and leaves the stored mask (and the rest of the object) unchanged, however
\* often it is called.
C21_FloatMask ==
    [][Len(masks) >= 1 =>
          /\ masks' = masks
          /\ \A result \in {float_mask'[n] : n \in 1..Len(float_mask')} :
              /\ DOMAIN result = MaskIndex(args)
              /\ DOMAIN result = DOMAIN masks[1].mask
              /\ \A p \in MaskIndex(args) :
                  /\ masks[1].mask[p] \in {0, 1}
                  /\ masks[1].mask[p] = 1 <=> result[p] = "0.0"
                  /\ masks[1].mask[p] = 0 <=> result[p] = "-inf"]_vars

\* get_float_mask has returned a mask with a 0 and a -inf for a geometry with
\* global, window and random blocks
C21_Witness ==
    /\ Len(masks) = 1 /\ Len(float_mask) = 1
    /\ args.num_global_blocks >= 1 /\ args.num_rand_blocks >= 1
    /\ \E p \in MaskIndex(args) : float_mask[1][p] = "0.0" /\ masks[1].mask[p] = 1
    /\ \E p \in MaskIndex(args) : float_mask[1][p] = "-inf" /\ masks[1].mask[p] = 0
    /\ \E p \in MaskIndex(args) : masks[1].rand_mask[p] = 1

\* C22: two calls of create_bigbird_rand_mask_idx_list with the same
\* geometry, the same num_layers and the same seed have the same outcome and
\* return the same indices, whatever was drawn from np.random between them.
C22_SameSeedSameIdxList ==
    \A i, j \in 1..Len(idx_calls) :
        (/\ idx_calls[i].list /\ idx_calls[j].list
         /\ idx_calls[i].num_layers = idx_calls[j].num_layers) =>
            /\ idx_calls[i].ok = idx_calls[j].ok
            /\ idx_calls[i].value = idx_calls[j].value

\* the step is a call of create_bigbird_rand_mask_idx
RandMaskIdxStep ==
    /\ Len(idx_calls') = Len(idx_calls) + 1
    /\ ~ idx_calls'[Len(idx_calls')].list

\* C25: for query_length and key_length multiples of block_size, a call of
\* create_bigbird_rand_mask_idx has the outcome of the loops of Mask started
\* from the same generator state for the same geometry, and returns the same
\* (head index, key block index) pairs in the same order as
\* Mask.get_rand_mask_idx, for every num_global_blocks.
C25_SameAsMask ==
    [][(RandMaskIdxStep /\ WholeBlocks(args)) =>
          \A m \in {CreateRandomMask(args, ZerosMask(args), rng).obj} :
              \A c \in {idx_calls'[Len(idx_calls')]} :
                  /\ c.ok = (m.status = "ok")
                  /\ c.ok => c.value = m.rand_mask_idx]_vars

\* the sub-masks: what _create_global_mask and _create_window_mask set on
\* their own
GlobalSubMask(a) == CreateGlobalMask(a, ZerosMask(a))
WindowSubMask(a) == CreateWindowMask(a, ZerosMask(a))

\* C4: the final mask is the elementwise maximum of the global, window and
\* random sub-masks, and every value is 0 or 1.
C4_MaskIsUnion ==
    \A global_mask \in {GlobalSubMask(args)}, window_mask \in {WindowSubMask(args)} :
        \A n \in 1..Len(masks) :
            Completed(masks[n]) =>
                \A p \in MaskIndex(args) :
                    /\ masks[n].mask[p] \in {0, 1}
                    /\ masks[n].mask[p] =
                           Max(Max(global_mask[p], window_mask[p]),
                               masks[n].rand_mask[p])

\* a completed mask with a position set by the random sub-mask alone, one set
\* by the window alone, one set by the global mask alone and one left 0
C4_Witness ==
    /\ Len(masks) >= 1
    /\ Completed(masks[1])
    /\ \E p \in MaskIndex(args) :
        /\ masks[1].rand_mask[p] = 1
        /\ GlobalSubMask(args)[p] = 0 /\ WindowSubMask(args)[p] = 0
        /\ masks[1].mask[p] = 1
    /\ \E p \in MaskIndex(args) :
        /\ WindowSubMask(args)[p] = 1
        /\ GlobalSubMask(args)[p] = 0 /\ masks[1].rand_mask[p] = 0
    /\ \E p \in MaskIndex(args) :
        /\ GlobalSubMask(args)[p] = 1
        /\ WindowSubMask(args)[p] = 0 /\ masks[1].rand_mask[p] = 0
    /\ \E p \in MaskIndex(args) : masks[1].mask[p] = 0

\* C5: in the final mask every position of the first
\* num_global_blocks * block_size query rows and of the first
\* num_global_blocks * block_size key columns is 1.
C5_GlobalRowsAndColumns ==
    \A n \in 1..Len(masks) :
        Completed(masks[n]) =>
            \A p \in MaskIndex(args) :
                (\/ p[2] < args.num_global_blocks * args.block_size
                 \/ p[3] < args.num_global_blocks * args.block_size) =>
                    masks[n].mask[p] = 1

\* a completed mask with a global row position and a global column position
\* that neither the window nor the random blocks cover
C5_Witness ==
    /\ Len(masks) >= 1
    /\ Completed(masks[1])
    /\ args.num_rand_blocks >= 1
    /\ args.num_global_blocks >= 1
    /\ \E p \in MaskIndex(args) :
        /\ p[2] < args.num_global_blocks * args.block_size
        /\ p[3] >= args.num_global_blocks * args.block_size
        /\ WindowSubMask(args)[p] = 0 /\ masks[1].rand_mask[p] = 0
    /\ \E p \in MaskIndex(args) :
        /\ p[3] < args.num_global_blocks * args.block_size
        /\ p[2] >= args.num_global_blocks * args.block_size
        /\ WindowSubMask(args)[p] = 0 /\ masks[1].rand_mask[p] = 0

\* positions of block b of a sequence of the given length
BlockPositions(b, block_size, length) ==
    {x \in 0..(length - 1) : b * block_size <= x /\ x < (b + 1) * block_size}

\* C6: in the final mask every query position of query block i has value 1 at
\* every key position of key blocks max(0, i - window_size//2) through
\* min(i + window_size//2, num_key_blocks - 1), also when a length is not a
\* multiple of block_size.
C6_WindowBlocks ==
    \A n \in 1..Len(masks) :
        Completed(masks[n]) =>
            \A h \in AllHeads(args) : \A i \in 0..(NumQueryBlocks(args) - 1) :
                \A b \in Max(0, i - args.window_size \div 2)
                         ..Min(i + args.window_size \div 2, NumKeyBlocks(args) - 1) :
                    \A x \in BlockPositions(i, args.block_size, args.query_length) :
                        \A y \in BlockPositions(b, args.block_size, args.key_length) :
                            masks[n].mask[<<h, x, y>>] = 1

\* lengths that are no multiple of block_size, and a window position outside
\* the global rows and columns and the random blocks, in a last partial block
C6_Witness ==
    /\ Len(masks) >= 1
    /\ Completed(masks[1])
    /\ args.num_rand_blocks >= 1
    /\ args.query_length % args.block_size # 0
    /\ args.key_length % args.block_size # 0
    /\ args.window_size \div 2 >= 1
    /\ \E p \in MaskIndex(args) :
        /\ WindowSubMask(args)[p] = 1
        /\ GlobalSubMask(args)[p] = 0 /\ masks[1].rand_mask[p] = 0
        /\ p[3] = args.key_length - 1
        /\ p[2] \div args.block_size # p[3] \div args.block_size

(***************************************************************************)
(* Properties of BigBirdSparseAttention.forward                            *)
(***************************************************************************)
\* a geometry the block-sparse scheme is laid out for: whole blocks, an odd
\* window of at least three blocks, and at least one query block whose window
\* lies inside the non-global blocks
RegularGeometry(c) ==
    /\ c.seq_len % c.block_size = 0
    /\ c.window_size % 2 = 1
    /\ c.window_size >= 3
    /\ BandLength(c) >= 1

\* the call has returned or raised
Returned == pc \in {"done", "error"}

\* the query positions of a list of attention results
Queries(rows) == [n \in 1..Len(rows) |-> rows[n].query]

\* C7: forward returns exactly T rows, the front-global rows, then the rows of
\* the non-global blocks, then the back-global rows, row r being the result of
\* query position r, for every num_global_blocks, 0 and odd values included.
C7_ForwardReturnsTRows ==
    (Returned /\ RegularGeometry(attn)) =>
        /\ pc = "done"
        /\ Len(out) = attn.seq_len
        /\ Queries(out) = Positions(attn)
        /\ Queries(out) = Queries(global_front_out) \o Queries(second_out)
                              \o Queries(global_back_out)
        /\ Len(global_front_out) = NumGlobalBlocksFront(attn) * attn.block_size
        /\ Len(global_back_out) = NumGlobalBlocksBack(attn) * attn.block_size

\* the band mask and the gathered keys are both computed
BandComputed == pc \in {"second", "concat", "done"}

\* the query block of the i-th row of the band mask and of the band matrix
MiddleQueryBlock(c, i) == NumGlobalBlocksFront(c) + i - 1

\* key block b is one query block q is to attend to: a global block or a
\* block of the window [q - W // 2, q + W // 2]
RealBlock(c, q, b) ==
    \/ b < NumGlobalBlocksFront(c)
    \/ b >= BlockedLength(c) - NumGlobalBlocksBack(c)
    \/ (q - c.window_size \div 2 <= b /\ b <= q + c.window_size \div 2)

AllOnes(mask) == \A t \in 1..Len(mask) : mask[t] = 1

\* C9: with all masks 1, the key blocks in the unmasked columns of a
\* non-global query block i are exactly the front global blocks, the
\* non-global blocks of the window [i - W // 2, i + W // 2] and the back
\* global blocks, each exactly once.
C9_AttendedBlocks ==
    (BandComputed /\ AllOnes(attn.query_mask) /\ AllOnes(attn.key_mask)) =>
        \A i \in 1..Len(band_keys_matrix) : \A a \in 1..attn.block_size :
            LET q == MiddleQueryBlock(attn, i)
                unmasked == {col \in 1..Len(band_mask[i][a]) :
                                band_mask[i][a][col] # 0}
                wanted == {t \in 0..(attn.seq_len - 1) :
                              RealBlock(attn, q, t \div attn.block_size)}
            IN  /\ {band_keys_matrix[i][col] : col \in unmasked} = wanted
                /\ Cardinality(unmasked) = Cardinality(wanted)

\* both calls of _get_global_out have returned
GlobalComputed == pc \in {"band_mask", "band_matrix", "second", "concat", "done"}

\* every row attends to all T keys, key t with the mask value key_mask[t]
DenseRows(c, rows) ==
    \A n \in 1..Len(rows) :
        /\ Len(rows[n].cols) = c.seq_len
        /\ \A t \in 1..c.seq_len :
            /\ rows[n].cols[t].key = t - 1
            /\ rows[n].cols[t].mask = c.key_mask[t]

\* C10: the global query rows are the first ceil(G / 2) blocks and the last
\* floor(G / 2) blocks of the sequence, and each of them attends to all T
\* keys, penalised only where key_mask is 0.
C10_GlobalRows ==
    (GlobalComputed /\ BlockedLength(attn) >= attn.num_global_blocks) =>
        /\ Queries(global_front_out) =
               Range(0, ((attn.num_global_blocks + 1) \div 2) * attn.block_size)
        /\ Queries(global_back_out) =
               Range(attn.seq_len
                         - (attn.num_global_blocks \div 2) * attn.block_size,
                     attn.seq_len)
        /\ DenseRows(attn, global_front_out)
        /\ DenseRows(attn, global_back_out)

\* the rows of the output that belong to the front-global, the middle and the
\* back-global section
FrontRows(c) == 1..(NumGlobalBlocksFront(c) * c.block_size)
BackRows(c) == (c.seq_len - NumGlobalBlocksBack(c) * c.block_size + 1)..c.seq_len
MiddleRows(c) == (1..c.seq_len) \ (FrontRows(c) \cup BackRows(c))

\* C11: every output row of forward whose query_mask is 0 is all zero (its
\* attention result is multiplied by 0), in the front-global, the middle and
\* the back-global section alike.
C11_MaskedRowsAreZero ==
    pc = "done" =>
        \A r \in 1..Len(out) :
            attn.query_mask[r] = 0 => out[r].scale = 0

\* a returned call with a masked row in each of the three sections and an
\* unmasked row
C11_Witness ==
    /\ pc = "done"
    /\ \E r \in FrontRows(attn) : attn.query_mask[r] = 1 /\ out[r].scale = 1
    /\ \E r \in FrontRows(attn) : attn.query_mask[r] = 0 /\ out[r].scale = 0
    /\ \E r \in MiddleRows(attn) : attn.query_mask[r] = 0 /\ out[r].scale = 0
    /\ \E r \in BackRows(attn) : attn.query_mask[r] = 0 /\ out[r].scale = 0

\* the additive mask that penalises the keys whose key_mask is 0, in units of
\* the penalty 1e6 of lines 676 and 775
KeyPenalty(c) ==
    [n \in 1..c.seq_len |-> [t \in 1..c.seq_len |-> c.key_mask[t] - 1]]

\* the window and the global blocks cover every key block for every
\* non-global query block (a global query block attends to every key block)
FullyDense(c) ==
    /\ c.seq_len % c.block_size = 0
    /\ \A q \in NumGlobalBlocksFront(c)
                  ..(BlockedLength(c) - NumGlobalBlocksBack(c) - 1),
          b \in 0..(BlockedLength(c) - 1) :
        RealBlock(c, q, b)

\* the key positions a row puts weight on
Attended(row) ==
    {row.cols[col].key : col \in {x \in 1..Len(row.cols) : row.cols[x].mask # 0}}

\* C12: when the window and the global blocks cover every key block for every
\* query block, forward returns and every unmasked query position attends to
\* exactly the key positions DefaultAttention attends to under the same key
\* mask, each once; this includes num_global_blocks = 0 with a window that
\* covers the whole sequence.
C12_DenseEquivalence ==
    (Returned /\ FullyDense(attn)) =>
        /\ pc = "done"
        /\ \A dense \in {DefaultAttention(attn.seq_len, attn.seq_len,
                                          KeyPenalty(attn))} :
            \A r \in 1..attn.seq_len :
                attn.query_mask[r] = 1 =>
                    /\ out[r].query = dense[r].query
                    /\ Attended(out[r]) = Attended(dense[r])
                    /\ Cardinality({x \in 1..Len(out[r].cols) :
                                       out[r].cols[x].mask # 0})
                           = Cardinality(Attended(dense[r]))

\* the arguments of the Mask for the geometry of the call: one head, query and
\* key of the call's length, no random block
MaskArgs(c) ==
    [query_length |-> c.seq_len, key_length |-> c.seq_len, num_heads |-> 1,
     block_size |-> c.block_size, window_size |-> c.window_size,
     num_global_blocks |-> c.num_global_blocks, num_rand_blocks |-> 0,
     seed |-> 0]

\* the blocks Mask treats as global: _create_global_mask sets the rows and
\* columns of the first num_global_blocks blocks, and rand_mask_idx drops the
\* rows of these query blocks
MaskGlobalBlocks(a) == 0..(a.num_global_blocks - 1)

\* the blocks of the query rows forward has handed to _get_global_out
ForwardGlobalBlocks ==
    {global_front_out[n].query \div attn.block_size :
         n \in 1..Len(global_front_out)}
        \cup {global_back_out[n].query \div attn.block_size :
                  n \in 1..Len(global_back_out)}

\* the query block of the j-th (from 0) block of rows of second_out
ForwardMiddleBlock(j) ==
    second_out[j * attn.block_size + 1].query \div attn.block_size

\* the global and window part of the Mask of the call's geometry
GlobalWindowMask(a) == CreateWindowMask(a, CreateGlobalMask(a, ZerosMask(a)))

\* C24: for the geometry of a call of forward that returns, the blocks Mask
\* treats as global are the blocks forward treats as global, the j-th query
\* block kept in rand_mask_idx (block num_global_blocks + j) is the j-th
\* middle query block of forward, and with all masks 1 every query position
\* attends in forward to exactly the key positions that are 1 in the global
\* and window part of the mask.
C24_SameGlobalBlocks ==
    pc = "done" =>
        /\ ForwardGlobalBlocks = MaskGlobalBlocks(MaskArgs(attn))
        /\ \A j \in 0..(Len(second_out) \div attn.block_size - 1) :
               ForwardMiddleBlock(j) = attn.num_global_blocks + j
        /\ (AllOnes(attn.query_mask) /\ AllOnes(attn.key_mask)) =>
               \A mask \in {GlobalWindowMask(MaskArgs(attn))} :
                   \A r \in 1..Len(out) : \A t \in 0..(attn.seq_len - 1) :
                       (t \in Attended(out[r])) = (mask[<<0, out[r].query, t>>] = 1)

\* the call with attn_mask and rand_mask_idx left at None
WithoutMaskAndIdx(c) ==
    [c EXCEPT !.attn_mask = NoTensor, !.rand_mask_idx = NoTensor]

ForwardStep == call'.count = call.count + 1

\* C17: a call of forward with an incremental Cache that returns hands back a
\* Cache whose k and v are the k and v passed in followed by the projections
\* of the call's key and value: the length grows by the number of new
\* positions and the earlier entries are kept, unchanged and in order; the
\* attention of the call is given exactly these keys and values.
C17_CacheGrowsByAppending ==
    [][(ForwardStep /\ cache.type = "Cache" /\ call'.status = "returned") =>
          /\ cache'.type = "Cache"
          /\ cache'.k = cache.k \o Linear3D("k_proj", call'.key)
          /\ cache'.v = cache.v \o Linear3D("v_proj", call'.value)
          /\ Len(cache'.k) = Len(cache.k) + Len(call'.key)
          /\ Len(cache'.v) = Len(cache.v) + Len(call'.value)
          /\ SubSeq(cache'.k, 1, Len(cache.k)) = cache.k
          /\ SubSeq(cache'.v, 1, Len(cache.v)) = cache.v
          /\ call'.k = cache'.k
          /\ call'.v = cache'.v]_vars

\* two calls have returned, the first on the empty cache of gen_cache(key):
\* the cache holds the projected keys of call 1 followed by those of call 2
C17_Witness ==
    /\ cache.type = "Cache"
    /\ call.count = 2 /\ call.status = "returned"
    /\ Len(cache.k) = 3 /\ Len(cache.v) = 3
    /\ cache.k[1].proj = "k_proj" /\ cache.k[1].call = 1
    /\ cache.k[2].call = 2 /\ cache.k[2].pos = 1
    /\ cache.k[3].call = 2 /\ cache.k[3].pos = 2
    /\ cache.v[1].proj = "v_proj" /\ cache.v[3].call = 2

\* C18: a call of forward with a StaticCache gives the attention exactly
\* cache.k and cache.v as keys and values, no row of them coming from the
\* key or value argument of the call, and the caller holds the same
\* StaticCache with the same contents afterwards.
C18_StaticCacheUntouched ==
    [][(ForwardStep /\ cache.type = "StaticCache") =>
          /\ call'.k = cache.k
          /\ call'.v = cache.v
          /\ \A i \in 1..Len(call'.k) : call'.k[i].call # call'.count
          /\ \A i \in 1..Len(call'.v) : call'.v[i].call # call'.count
          /\ cache' = cache]_vars

\* two calls with a StaticCache have returned, the second with a key argument
\* of another length than the cache
C18_Witness ==
    /\ cache.type = "StaticCache"
    /\ call.count = 2 /\ call.status = "returned"
    /\ call.key[1].src = "key" /\ call.key[1].call = 2
    /\ Len(call.key) # Len(cache.k)
    /\ call.k = cache.k /\ call.v = cache.v
    /\ call.k[1].call = 0 /\ call.k[1].proj = "k_proj"

\* C20: the construction of MultiHeadAttention raises when embed_dim is not
\* divisible by num_heads, before a projection or the attention strategy is
\* created, and otherwise completes with head_dim * num_heads = embed_dim.
C20_ConstructorChecksDivisibility ==
    mha.status # "none" =>
        IF mha.embed_dim % mha.num_heads # 0
        THEN mha.status = "error" /\ mha.sublayers = {}
        ELSE /\ mha.status = "ok"
             /\ mha.head_dim * mha.num_heads = mha.embed_dim
             /\ mha.sublayers = {"q_proj", "k_proj", "v_proj", "out_proj",
                                 "attn_impl"}

\* a construction with embed_dim = 3 and num_heads = 2 has raised
C20_Witness ==
    /\ mha.status = "error"
    /\ mha.embed_dim = 3 /\ mha.num_heads = 2 /\ mha.head_dim = 1
    /\ mha.sublayers = {}

=============================================================================
